---------------------------- MODULE Spec2Model ----------------------------
(***************************************************************************)
(* Model of the webhook ingestion service (src/app): HMAC verification,    *)
(* payload validation, idempotent SQLite storage.                          *)
(*                                                                         *)
(* Strings are sequences of one-character strings, so that the regular     *)
(* expressions of main.py can be evaluated position by position.  A        *)
(* request body is a sequence of JSON tokens (punctuation, whitespace,     *)
(* string and number literals): two bodies can carry the same JSON object  *)
(* and still differ as raw bytes.                                          *)
(***************************************************************************)
EXTENDS Integers, Sequences, FiniteSets, TLC

\* ------------------------------------------------------------- bounds
\* Worker processes serving requests side by side on the same database file.
NumWorkers == 2
\* Server clock ticks; one tick passes per request received, so this also
\* bounds the number of requests of a behaviour.
MaxClock == 3

\* text: Optional[str] = Field(None, max_length=4096)
MaxTextLen == 4096

Workers == 1..NumWorkers

\* ------------------------------------------------------------ strings
AsciiDigits == {"0", "1", "2", "3", "4", "5", "6", "7", "8", "9"}

\* U+0663 ARABIC-INDIC DIGIT THREE, written as one character token: a decimal
\* digit for re's \d on str patterns, not one of [0-9].
ArabicThree == "u0663"

UnicodeDigits == AsciiDigits \cup {ArabicThree}

DigitVal(c) ==
    CASE c = "0" -> 0 [] c = "1" -> 1 [] c = "2" -> 2 [] c = "3" -> 3
      [] c = "4" -> 4 [] c = "5" -> 5 [] c = "6" -> 6 [] c = "7" -> 7
      [] c = "8" -> 8 [] c = "9" -> 9

\* The position where re's "$" may stand for a match that must consume the
\* whole pattern: the end of the string, or just before one final newline.
DollarEnd(s) ==
    IF Len(s) > 0 /\ s[Len(s)] = "\n" THEN Len(s) - 1 ELSE Len(s)

\* E164_PATTERN = re.compile(r"^\+[0-9]+$"), used with .match()
MatchE164(s) ==
    LET n == DollarEnd(s)
    IN  /\ n >= 2
        /\ s[1] = "+"
        /\ \A i \in 2..n : s[i] \in AsciiDigits

\* ISO8601_UTC_PATTERN =
\*   re.compile(r"^\d{4}-\d{2}-\d{2}T\d{2}:\d{2}:\d{2}(\.\d+)?Z$"), with .match()
MatchISO8601(s) ==
    LET n == DollarEnd(s)
        D(i) == s[i] \in UnicodeDigits
    IN  /\ n >= 20
        /\ D(1) /\ D(2) /\ D(3) /\ D(4) /\ s[5] = "-"
        /\ D(6) /\ D(7) /\ s[8] = "-"
        /\ D(9) /\ D(10) /\ s[11] = "T"
        /\ D(12) /\ D(13) /\ s[14] = ":"
        /\ D(15) /\ D(16) /\ s[17] = ":"
        /\ D(18) /\ D(19)
        /\ s[n] = "Z"
        /\ \/ n = 20
           \/ /\ n >= 22
              /\ s[20] = "."
              /\ \A i \in 21..(n - 1) : D(i)

\* str.replace("Z", "+00:00")
RECURSIVE ReplaceZ(_)
ReplaceZ(s) ==
    IF s = <<>> THEN <<>>
    ELSE (IF Head(s) = "Z" THEN <<"+", "0", "0", ":", "0", "0">> ELSE <<Head(s)>>)
         \o ReplaceZ(Tail(s))

IsLeap(y) == (y % 4 = 0 /\ y % 100 # 0) \/ y % 400 = 0

DaysInMonth(y, m) ==
    IF m = 2 THEN (IF IsLeap(y) THEN 29 ELSE 28)
    ELSE IF m \in {4, 6, 9, 11} THEN 30 ELSE 31

Num2(s, i) == 10 * DigitVal(s[i]) + DigitVal(s[i + 1])
Num4(s, i) == 100 * Num2(s, i) + Num2(s, i + 2)

\* The date and time fields of an ISO string are a real calendar instant:
\* the range checks of datetime's constructor.
CalendarOk(s) ==
    LET y == Num4(s, 1)  m == Num2(s, 6)  d == Num2(s, 9)
        hh == Num2(s, 12)  mi == Num2(s, 15)  ss == Num2(s, 18)
    IN  /\ y >= 1
        /\ m \in 1..12
        /\ d >= 1 /\ d <= DaysInMonth(y, m)
        /\ hh \in 0..23 /\ mi \in 0..59 /\ ss \in 0..59

\* A UTC offset "+HH:MM" or "-HH:MM" at s[i..], ending the string.
OffsetAt(s, i) ==
    /\ Len(s) = i + 5
    /\ s[i] \in {"+", "-"}
    /\ s[i + 1] \in AsciiDigits /\ s[i + 2] \in AsciiDigits
    /\ s[i + 3] = ":"
    /\ s[i + 4] \in AsciiDigits /\ s[i + 5] \in AsciiDigits
    /\ Num2(s, i + 1) \in 0..23 /\ Num2(s, i + 4) \in 0..59

\* The end of the run of ASCII digits that starts at s[i] (i - 1 when none).
RECURSIVE DigitRunEnd(_, _)
DigitRunEnd(s, i) ==
    IF i <= Len(s) /\ s[i] \in AsciiDigits THEN DigitRunEnd(s, i + 1) ELSE i - 1

\* datetime.fromisoformat(s) returns (TRUE) or raises ValueError (FALSE), for
\* the full date-and-time forms: YYYY-MM-DD, any one separator character,
\* HH:MM:SS, an optional fraction, an optional offset; ASCII digits only,
\* nothing after the offset.  (CPython 3.11 and later take a fraction of any
\* length; earlier versions take 3 or 6 digits only, which accepts less.)
FromIsoFormatOk(s) ==
    LET A(i) == s[i] \in AsciiDigits
    IN  /\ Len(s) >= 19
        /\ A(1) /\ A(2) /\ A(3) /\ A(4) /\ s[5] = "-"
        /\ A(6) /\ A(7) /\ s[8] = "-"
        /\ A(9) /\ A(10)
        /\ A(12) /\ A(13) /\ s[14] = ":"
        /\ A(15) /\ A(16) /\ s[17] = ":"
        /\ A(18) /\ A(19)
        /\ CalendarOk(s)
        /\ LET f == IF Len(s) >= 20 /\ s[20] = "."
                    THEN DigitRunEnd(s, 21) ELSE 19
           IN  /\ (Len(s) >= 20 /\ s[20] = ".") => f >= 21
               /\ (f = Len(s) \/ OffsetAt(s, f + 1))


\* --------------------------------------------------------------- JSON
\* A raw body is a sequence of tokens [t, v]: t is the token class and v the
\* characters of a string or number literal (<<>> for the other classes).
Tok(t) == [t |-> t, v |-> <<>>]
Str(v) == [t |-> "str", v |-> v]
NumTok(v) == [t |-> "num", v |-> v]
NullTok == Tok("null")
WS == Tok("ws")

K_message_id == <<"m", "e", "s", "s", "a", "g", "e", "_", "i", "d">>
K_from == <<"f", "r", "o", "m">>
K_from_ == <<"f", "r", "o", "m", "_">>
K_to == <<"t", "o">>
K_ts == <<"t", "s">>
K_text == <<"t", "e", "x", "t">>

EmptyDict == [k \in {} |-> NullTok]

\* The members "key": value, ... of an object, from toks[i] to the closing
\* brace that must end the document; a repeated key keeps its last value.
RECURSIVE ParseMembers(_, _, _)
ParseMembers(toks, i, acc) ==
    IF /\ i + 3 <= Len(toks)
       /\ toks[i].t = "str"
       /\ toks[i + 1].t = ":"
       /\ toks[i + 2].t \in {"str", "num", "null"}
    THEN LET d == (toks[i].v :> toks[i + 2]) @@ acc
         IN  IF toks[i + 3].t = "}" /\ i + 3 = Len(toks)
             THEN [ok |-> TRUE, isdict |-> TRUE, dict |-> d]
             ELSE IF toks[i + 3].t = ","
                  THEN ParseMembers(toks, i + 4, d)
                  ELSE [ok |-> FALSE, isdict |-> FALSE, dict |-> EmptyDict]
    ELSE [ok |-> FALSE, isdict |-> FALSE, dict |-> EmptyDict]

\* json.loads(body): ok is FALSE when it raises; isdict tells an object from
\* any other JSON value (a scalar, an array).
JsonLoads(body) ==
    LET toks == SelectSeq(body, LAMBDA t : t.t # "ws")
        bad == [ok |-> FALSE, isdict |-> FALSE, dict |-> EmptyDict]
        other == [ok |-> TRUE, isdict |-> FALSE, dict |-> EmptyDict]
    IN  IF Len(toks) = 0 THEN bad
        ELSE IF Len(toks) = 1
             THEN (IF toks[1].t \in {"str", "num", "null"} THEN other ELSE bad)
        ELSE IF toks[1].t = "[" 
             THEN (IF Len(toks) = 2 /\ toks[2].t = "]" THEN other ELSE bad)
        ELSE IF toks[1].t = "{"
             THEN (IF Len(toks) = 2 /\ toks[2].t = "}"
                   THEN [ok |-> TRUE, isdict |-> TRUE, dict |-> EmptyDict]
                   ELSE ParseMembers(toks, 2, EmptyDict))
        ELSE bad

\* ---------------------------------------------------------- signature
\* The X-Signature header as the handler sees it.  tag "none": no header;
\* "empty": the empty string; "hmac": the lower-case hex HMAC-SHA256 of msg
\* under key; "HMAC": the same digits in upper case; "zeros": 64 zeros;
\* "nonascii": a value holding a character outside ASCII (a header byte such
\* as 0xE9, which the server decodes as latin-1).
Header(tag, key, msg) == [tag |-> tag, key |-> key, msg |-> msg]
NoHeader == Header("none", "", <<>>)

\* hmac.new(secret.encode("utf-8"), body, hashlib.sha256).hexdigest(): the
\* digest is a function of (key, message) and of nothing else, and distinct
\* (key, message) pairs give distinct digests (collision resistance).
HmacHexdigest(secret, body) == Header("hmac", secret, body)

\* hmac.compare_digest(a, b) on two str: TypeError unless both are ASCII.
CompareDigest(a, b) ==
    IF a.tag = "nonascii" \/ b.tag = "nonascii" THEN "TypeError"
    ELSE IF a = b THEN "True" ELSE "False"

\* Variant: the digest taken over the body re-serialized without whitespace.
verify_signature_reserialized(secret, body, signature) ==
    CompareDigest(HmacHexdigest(secret, SelectSeq(body, LAMBDA t : t.t # "ws")),
                  signature)

\* def verify_signature(secret, body, signature): "True", "False" or the
\* exception it lets through.
verify_signature(secret, body, signature) ==
    CompareDigest(HmacHexdigest(secret, body), signature)

\* --------------------------------------------------------- validation
NoText == [isnull |-> TRUE, v |-> <<>>]
SomeText(v) == [isnull |-> FALSE, v |-> v]

NoPayload ==
    [message_id |-> <<>>, from_ |-> <<>>, to |-> <<>>, ts |-> <<>>, text |-> NoText]

\* validate_from_e164 / validate_to_e164
ValidateE164(v) == MatchE164(v)

\* Variant: the pattern alone, without the datetime.fromisoformat check.
ValidateTsPatternOnly(v) == MatchISO8601(v)

\* validate_ts_iso8601: the pattern, then datetime.fromisoformat on the
\* value with Z replaced by +00:00
ValidateTs(v) == MatchISO8601(v) /\ FromIsoFormatOk(ReplaceZ(v))

\* The value given for from_: by alias "from", else by name (populate_by_name).
FromKey(d) == IF K_from \in DOMAIN d THEN K_from ELSE K_from_

\* WebhookPayload(**payload_data): ok is FALSE when the constructor raises.
WebhookPayload(d) ==
    LET IsStr(k) == k \in DOMAIN d /\ d[k].t = "str"
        ok == /\ IsStr(K_message_id) /\ Len(d[K_message_id].v) >= 1
              /\ IsStr(FromKey(d)) /\ ValidateE164(d[FromKey(d)].v)
              /\ IsStr(K_to) /\ ValidateE164(d[K_to].v)
              /\ IsStr(K_ts) /\ ValidateTs(d[K_ts].v)
              /\ (K_text \in DOMAIN d =>
                     \/ d[K_text].t = "null"
                     \/ d[K_text].t = "str" /\ Len(d[K_text].v) <= MaxTextLen)
    IN  IF ok
        THEN [ok |-> TRUE,
              payload |-> [message_id |-> d[K_message_id].v,
                           from_ |-> d[FromKey(d)].v,
                           to |-> d[K_to].v,
                           ts |-> d[K_ts].v,
                           text |-> IF K_text \in DOMAIN d /\ d[K_text].t = "str"
                                    THEN SomeText(d[K_text].v) ELSE NoText]]
        ELSE [ok |-> FALSE, payload |-> NoPayload]

\* The try block of webhook(): json.loads then WebhookPayload(**payload_data);
\* a non-object value makes the ** call raise TypeError, caught like the rest.
ParseAndValidate(body) ==
    LET j == JsonLoads(body)
        v == WebhookPayload(j.dict)
    IN  IF ~j.ok
        THEN [ok |-> FALSE, payload |-> NoPayload, error |-> "JSONDecodeError"]
        ELSE IF ~j.isdict
        THEN [ok |-> FALSE, payload |-> NoPayload, error |-> "TypeError"]
        ELSE [ok |-> v.ok, payload |-> v.payload,
              error |-> IF v.ok THEN "none" ELSE "ValidationError"]

\* str(e) of the exceptions the try block of webhook() catches: the message
\* of the exception object, one text for each class of exception (the
\* position a JSON error names and the fields a validation error lists vary
\* with the body).
ExceptionText(e) ==
    CASE e = "JSONDecodeError" -> "Expecting value: line ... column ... (char ...)"
      [] e = "TypeError" ->
             "app.main.WebhookPayload() argument after ** must be a mapping, not list"
      [] e = "ValidationError" ->
             "1 validation error for WebhookPayload ... [type=..., input_value=..., input_type=...]"


\* -------------------------------------------------------------- state
VARIABLES
    store,      \* the committed rows of table messages
    wlock,      \* the worker whose connection holds the database write lock, or 0
    clock,      \* server time, in ticks
    pc,         \* per worker: where its current request stands
    request,    \* per worker: the raw body and the X-Signature header received
    payload,    \* per worker: the validated WebhookPayload
    txn,        \* per worker: the row its open transaction has written
    rstate,     \* per worker: request.state, read by the logging middleware
    recorded,   \* per worker: the labels passed to record_webhook_result
    exc,        \* per worker: the exception raised while handling the request
    response,   \* per worker: the HTTP response produced
    overlap,    \* per worker: the workers whose current request was being
                \* handled at some moment while this worker's was
    reader      \* the handler of GET /messages and GET /stats: its position,
                \* its parameters, what its queries have returned so far and
                \* its response

vars == <<store, wlock, clock, pc, request, payload, txn, rstate, recorded, exc,
          response, overlap, reader>>

\* settings.webhook_secret, non-empty once the application has started
Secret == "secret"

NoRequest == [body |-> <<>>, x_signature |-> NoHeader]
NoRow ==
    [message_id |-> <<>>, from_msisdn |-> <<>>, to_msisdn |-> <<>>, ts |-> <<>>,
     text |-> NoText, created_at |-> 0]
\* request.state as logging_middleware resets it
FreshState ==
    [webhook_message_id |-> <<>>, webhook_dup |-> "None",
     webhook_result |-> "None"]
NoResponse == [status |-> 0, body |-> ""]

\* An optional string parameter: None, or a str.
NoParam == [isnull |-> TRUE, v |-> <<>>]
Param(v) == [isnull |-> FALSE, v |-> v]
\* "if from_filter:", "if since:", "if q:" -- None and "" add no condition
Truthy(x) == ~x.isnull /\ x.v # <<>>

\* An integer query parameter as it arrives: absent, an integer literal, an
\* integer literal above 2^63 - 1, or text that is no integer.
NoInt == [tag |-> "none", n |-> 0]
IntParam(n) == [tag |-> "int", n |-> n]
HugeInt == [tag |-> "huge", n |-> 0]
NotInt == [tag |-> "text", n |-> 0]

\* The read handler between two requests.
NoParams ==
    [limit |-> NoInt, offset |-> NoInt, from_ |-> NoParam, since |-> NoParam,
     q |-> NoParam]
NoStats ==
    [total_messages |-> 0, senders_count |-> 0, messages_per_sender |-> <<>>,
     first_message_ts |-> NoParam, last_message_ts |-> NoParam]
NoReadResponse == [status |-> 0, body |-> [detail |-> ""]]
IdleReader ==
    [pc |-> "idle", op |-> "none", raw |-> NoParams, limit |-> 0,
     offset |-> NoInt, total |-> 0, stats |-> NoStats, queries |-> 0,
     exc |-> "none", response |-> NoReadResponse, after |-> {}]

\* The service once started on a database holding rows, at server time now.
Started(rows, now) ==
    /\ store = rows
    /\ wlock = 0
    /\ clock = now
    /\ pc = [p \in Workers |-> "idle"]
    /\ request = [p \in Workers |-> NoRequest]
    /\ payload = [p \in Workers |-> NoPayload]
    /\ txn = [p \in Workers |-> NoRow]
    /\ rstate = [p \in Workers |-> FreshState]
    /\ recorded = [p \in Workers |-> <<>>]
    /\ exc = [p \in Workers |-> "none"]
    /\ response = [p \in Workers |-> NoResponse]
    /\ overlap = [p \in Workers |-> {}]
    /\ reader = IdleReader

\* A fresh database.
Init == Started({}, 0)

\* The handler of worker p has a request it has not answered yet.
InFlight(p) == pc[p] \notin {"idle", "responded"}

HasRow(rows, message_id) == \E r \in rows : r.message_id = message_id

\* ------------------------------------------------------------ actions
\* logging_middleware up to call_next, and the handler reading the body.
Receive(p, body, x_signature) ==
    /\ pc[p] = "idle"
    /\ clock < MaxClock
    /\ clock' = clock + 1
    /\ request' = [request EXCEPT ![p] = [body |-> body, x_signature |-> x_signature]]
    /\ rstate' = [rstate EXCEPT ![p] = FreshState]
    /\ overlap' = [w \in Workers |->
                       IF w = p THEN {q \in Workers \ {p} : InFlight(q)}
                       ELSE IF InFlight(w) THEN overlap[w] \cup {p}
                       ELSE overlap[w]]
    /\ recorded' = [recorded EXCEPT ![p] = <<>>]
    /\ exc' = [exc EXCEPT ![p] = "none"]
    /\ response' = [response EXCEPT ![p] = NoResponse]
    /\ payload' = [payload EXCEPT ![p] = NoPayload]
    /\ pc' = [pc EXCEPT ![p] = "received"]
    /\ UNCHANGED <<store, wlock, txn, reader>>

\* An early exit of webhook(): the outcome is put in request.state and in the
\* counter, then HTTPException(status, detail) is raised.
Reject(p, result, status, detail) ==
    /\ rstate' = [rstate EXCEPT ![p].webhook_result = result]
    /\ recorded' = [recorded EXCEPT ![p] = Append(@, result)]
    /\ response' = [response EXCEPT
                       ![p] = [status |-> status, body |-> detail]]
    /\ pc' = [pc EXCEPT ![p] = "responded"]

\* generic_exception_handler: an exception nothing caught.
Unhandled(p, e) ==
    /\ exc' = [exc EXCEPT ![p] = e]
    /\ response' = [response EXCEPT ![p] =
                        [status |-> 500, body |-> "Internal server error"]]
    /\ pc' = [pc EXCEPT ![p] = "responded"]

\* webhook(), "Verify signature"
VerifySig(p) ==
    /\ pc[p] = "received"
    /\ LET sig == request[p].x_signature
           v == verify_signature(Secret, request[p].body, sig)
       IN  IF sig.tag \in {"none", "empty"}
           THEN Reject(p, "invalid_signature", 401, "invalid signature")
                /\ UNCHANGED exc
           ELSE IF v = "TypeError"
           THEN Unhandled(p, "TypeError") /\ UNCHANGED <<rstate, recorded>>
           ELSE IF v = "False"
           THEN Reject(p, "invalid_signature", 401, "invalid signature")
                /\ UNCHANGED exc
           ELSE /\ pc' = [pc EXCEPT ![p] = "verified"]
                /\ UNCHANGED <<rstate, recorded, exc, response>>
    /\ UNCHANGED <<store, wlock, clock, request, payload, txn, overlap, reader>>

\* webhook(), "Parse and validate payload"
Validate(p) ==
    /\ pc[p] = "verified"
    /\ LET r == ParseAndValidate(request[p].body)
       IN  IF ~r.ok
           THEN /\ Reject(p, "validation_error", 422, ExceptionText(r.error))
                /\ exc' = [exc EXCEPT ![p] = r.error]
                /\ UNCHANGED payload
           ELSE /\ payload' = [payload EXCEPT ![p] = r.payload]
                /\ rstate' = [rstate EXCEPT
                                 ![p].webhook_message_id = r.payload.message_id]
                /\ pc' = [pc EXCEPT ![p] = "validated"]
                /\ UNCHANGED <<recorded, exc, response>>
    /\ UNCHANGED <<store, wlock, clock, request, txn, overlap, reader>>

\* Variant: a duplicate is told to the caller in the response body.
AfterInsertVisible(p, success, is_duplicate) ==
    /\ rstate' = [rstate EXCEPT
                     ![p].webhook_dup = IF is_duplicate THEN "True" ELSE "False",
                     ![p].webhook_result =
                         IF is_duplicate THEN "duplicate" ELSE "created"]
    /\ recorded' = [recorded EXCEPT
                       ![p] = Append(@, IF is_duplicate THEN "duplicate" ELSE "created")]
    /\ response' = [response EXCEPT
                       ![p] = [status |-> 200,
                               body |-> IF is_duplicate THEN "duplicate" ELSE "ok"]]
    /\ pc' = [pc EXCEPT ![p] = "responded"]

\* webhook() after insert_message has returned (success, is_duplicate).
AfterInsert(p, success, is_duplicate) ==
    /\ rstate' = [rstate EXCEPT
                     ![p].webhook_dup = IF is_duplicate THEN "True" ELSE "False",
                     ![p].webhook_result =
                         IF is_duplicate THEN "duplicate" ELSE "created"]
    /\ recorded' = [recorded EXCEPT
                       ![p] = Append(@, IF is_duplicate THEN "duplicate" ELSE "created")]
    /\ response' = [response EXCEPT
                       ![p] = [status |-> 200, body |-> "ok"]]
    /\ pc' = [pc EXCEPT ![p] = "responded"]

\* The row insert_message writes: created_at is the server time of the call.
NewRow(pl, now) ==
    [message_id |-> pl.message_id, from_msisdn |-> pl.from_, to_msisdn |-> pl.to,
     ts |-> pl.ts, text |-> pl.text, created_at |-> now]

\* Variant: the table declared without its PRIMARY KEY.
SqlInsertNoKey(rows, row) == [error |-> "none", rows |-> rows \cup {row}]

\* Variant: INSERT OR REPLACE in place of INSERT.
SqlInsertOrReplace(rows, row) ==
    [error |-> "none",
     rows |-> {r \in rows : r.message_id # row.message_id} \cup {row}]

\* INSERT INTO messages ... on a table whose message_id is the PRIMARY KEY:
\* the statement fails with IntegrityError when a row has that message_id and
\* leaves the table as it is; otherwise the row is added.
SqlInsert(rows, row) ==
    IF HasRow(rows, row.message_id)
    THEN [error |-> "IntegrityError", rows |-> rows]
    ELSE [error |-> "none", rows |-> rows \cup {row}]

\* insert_message, cursor.execute(INSERT ...): the statement takes the write
\* lock (it waits while another connection holds it) and checks the key;
\* IntegrityError makes insert_message return (True, True).
ExecInsert(p) ==
    /\ pc[p] = "validated"
    /\ wlock = 0
    /\ LET row == NewRow(payload[p], clock)
       IN  IF SqlInsert(store, row).error = "IntegrityError"
           THEN /\ exc' = [exc EXCEPT ![p] = "IntegrityError"]
                /\ AfterInsert(p, TRUE, TRUE)
                /\ UNCHANGED <<wlock, txn>>
           ELSE /\ txn' = [txn EXCEPT ![p] = row]
                /\ wlock' = p
                /\ pc' = [pc EXCEPT ![p] = "pending"]
                /\ UNCHANGED <<rstate, recorded, exc, response>>
    /\ UNCHANGED <<store, clock, request, payload, overlap, reader>>

\* insert_message, cursor.execute raising OperationalError "database is
\* locked": another connection holds the write lock and the busy timeout of
\* the connection runs out.  except Exception returns (False, False).
ExecInsertLocked(p) ==
    /\ pc[p] = "validated"
    /\ wlock \notin {0, p}
    /\ exc' = [exc EXCEPT ![p] = "OperationalError"]
    /\ AfterInsert(p, FALSE, FALSE)
    /\ UNCHANGED <<store, wlock, clock, request, payload, txn, overlap, reader>>

\* Variant: insert_message answers every exception of the INSERT as it answers
\* IntegrityError, with (True, True).
ExecInsertFaultDuplicate(p) ==
    /\ pc[p] = "validated"
    /\ wlock = 0
    /\ exc' = [exc EXCEPT ![p] = "OperationalError"]
    /\ AfterInsert(p, TRUE, TRUE)
    /\ UNCHANGED <<store, wlock, clock, request, payload, txn, overlap, reader>>

\* insert_message, cursor.execute raising any other exception that is not
\* IntegrityError (a disk I/O error, a full disk): (False, False) again.
ExecInsertFault(p) ==
    /\ pc[p] = "validated"
    /\ wlock = 0
    /\ exc' = [exc EXCEPT ![p] = "OperationalError"]
    /\ AfterInsert(p, FALSE, FALSE)
    /\ UNCHANGED <<store, wlock, clock, request, payload, txn, overlap, reader>>

\* insert_message, conn.commit() and return (True, False)
Commit(p) ==
    /\ pc[p] = "pending"
    /\ store' = SqlInsert(store, txn[p]).rows
    /\ wlock' = 0
    /\ txn' = [txn EXCEPT ![p] = NoRow]
    /\ AfterInsert(p, TRUE, FALSE)
    /\ UNCHANGED <<clock, request, payload, exc, overlap, reader>>

\* insert_message, conn.commit() raising: (False, False), and conn.close()
\* rolls the transaction back.
CommitFault(p) ==
    /\ pc[p] = "pending"
    /\ wlock' = 0
    /\ txn' = [txn EXCEPT ![p] = NoRow]
    /\ exc' = [exc EXCEPT ![p] = "OperationalError"]
    /\ AfterInsert(p, FALSE, FALSE)
    /\ UNCHANGED <<store, clock, request, payload, overlap, reader>>

\* logging_middleware after call_next: the request is logged and answered.
Finish(p) ==
    /\ pc[p] = "responded"
    /\ pc' = [pc EXCEPT ![p] = "idle"]
    /\ request' = [request EXCEPT ![p] = NoRequest]
    /\ payload' = [payload EXCEPT ![p] = NoPayload]
    /\ rstate' = [rstate EXCEPT ![p] = FreshState]
    /\ recorded' = [recorded EXCEPT ![p] = <<>>]
    /\ exc' = [exc EXCEPT ![p] = "none"]
    /\ response' = [response EXCEPT ![p] = NoResponse]
    /\ overlap' = [w \in Workers |-> IF w = p THEN {} ELSE overlap[w] \ {p}]
    /\ UNCHANGED <<store, wlock, clock, txn, reader>>


\* ---------------------------------------------------------- read side
\* U+00C9 and U+00E9, LATIN LETTER E WITH ACUTE in upper and lower case, each
\* written as one character token.
UpperEAcute == "u00C9"
LowerEAcute == "u00E9"

\* The code point of a character.  The columns are TEXT with the default
\* BINARY collation: SQLite compares the UTF-8 bytes, which orders strings as
\* their code points do.
CodePoint(c) ==
    CASE c = "\n" -> 10
      [] c = " " -> 32
      [] c = "%" -> 37
      [] c = "+" -> 43
      [] c = "-" -> 45
      [] c = "." -> 46
      [] c \in AsciiDigits -> 48 + DigitVal(c)
      [] c = ":" -> 58
      [] c = "A" -> 65
      [] c = "B" -> 66
      [] c = "H" -> 72
      [] c = "I" -> 73
      [] c = "M" -> 77
      [] c = "T" -> 84
      [] c = "Z" -> 90
      [] c = "_" -> 95
      [] c = "a" -> 97
      [] c = "b" -> 98
      [] c = "h" -> 104
      [] c = "i" -> 105
      [] c = "m" -> 109
      [] c = "s" -> 115
      [] c = UpperEAcute -> 201
      [] c = LowerEAcute -> 233
      [] c = ArabicThree -> 1635

\* a < b for two TEXT values
RECURSIVE StrLess(_, _)
StrLess(a, b) ==
    IF b = <<>> THEN FALSE
    ELSE IF a = <<>> THEN TRUE
    ELSE IF Head(a) = Head(b) THEN StrLess(Tail(a), Tail(b))
    ELSE CodePoint(Head(a)) < CodePoint(Head(b))

\* SQLite's LOWER() and the folding of its LIKE: the ASCII letters only.
AsciiLower(c) ==
    CASE c = "A" -> "a" [] c = "B" -> "b" [] c = "H" -> "h" [] c = "I" -> "i"
      [] c = "M" -> "m" [] c = "T" -> "t" [] c = "Z" -> "z" [] OTHER -> c
SqlLower(s) == [i \in 1..Len(s) |-> AsciiLower(s[i])]

\* str.lower(): every cased character.
PyLowerChar(c) == IF c = UpperEAcute THEN LowerEAcute ELSE AsciiLower(c)
PyLower(s) == [i \in 1..Len(s) |-> PyLowerChar(s[i])]

\* s LIKE pat: % stands for any run of characters, _ for any one character,
\* every other character for itself, ASCII letters without regard to case.
RECURSIVE Like(_, _)
Like(s, pat) ==
    IF pat = <<>> THEN s = <<>>
    ELSE IF Head(pat) = "%"
    THEN \E k \in 0..Len(s) : Like(SubSeq(s, k + 1, Len(s)), Tail(pat))
    ELSE IF s = <<>> THEN FALSE
    ELSE IF Head(pat) = "_" THEN Like(Tail(s), Tail(pat))
    ELSE /\ AsciiLower(Head(s)) = AsciiLower(Head(pat))
         /\ Like(Tail(s), Tail(pat))

\* Variant: an out-of-range limit is clamped into 1..100.
ValidateLimitClamped(raw) ==
    IF raw.tag = "none" THEN [ok |-> TRUE, tag |-> "int", n |-> 50]
    ELSE IF raw.tag = "int"
    THEN [ok |-> TRUE, tag |-> "int",
          n |-> IF raw.n < 1 THEN 1 ELSE IF raw.n > 100 THEN 100 ELSE raw.n]
    ELSE [ok |-> FALSE, tag |-> "int", n |-> 0]
\* Query(ge=1, le=100) = 50 and Query(ge=0) = 0: the value, or the 422 of
\* FastAPI's request validation.
ValidateLimit(raw) ==
    IF raw.tag = "none" THEN [ok |-> TRUE, tag |-> "int", n |-> 50]
    ELSE IF raw.tag = "int" /\ raw.n >= 1 /\ raw.n <= 100
    THEN [ok |-> TRUE, tag |-> "int", n |-> raw.n]
    ELSE [ok |-> FALSE, tag |-> "int", n |-> 0]
ValidateOffset(raw) ==
    IF raw.tag = "none" THEN [ok |-> TRUE, tag |-> "int", n |-> 0]
    ELSE IF raw.tag = "huge" THEN [ok |-> TRUE, tag |-> "huge", n |-> 0]
    ELSE IF raw.tag = "int" /\ raw.n >= 0
    THEN [ok |-> TRUE, tag |-> "int", n |-> raw.n]
    ELSE [ok |-> FALSE, tag |-> "int", n |-> 0]

\* The WHERE clause get_messages builds from its three filters.
Matches(row, from_filter, since, q) ==
    /\ Truthy(from_filter) => row.from_msisdn = from_filter.v
    /\ Truthy(since) => ~StrLess(row.ts, since.v)
    /\ Truthy(q) =>
           /\ ~row.text.isnull
           /\ Like(SqlLower(row.text.v), <<"%">> \o PyLower(q.v) \o <<"%">>)
Where(rows, from_filter, since, q) ==
    {r \in rows : Matches(r, from_filter, since, q)}

\* ORDER BY ts ASC, message_id ASC
RowBefore(r1, r2) ==
    \/ StrLess(r1.ts, r2.ts)
    \/ r1.ts = r2.ts /\ StrLess(r1.message_id, r2.message_id)
\* Variant: the rows in the order of their insertion.
RECURSIVE OrderByInsertion(_)
OrderByInsertion(rows) ==
    IF rows = {} THEN <<>>
    ELSE LET first == CHOOSE r \in rows :
                          \A o \in rows : r.created_at <= o.created_at
         IN  <<first>> \o OrderByInsertion(rows \ {first})
RECURSIVE OrderByTsId(_)
OrderByTsId(rows) ==
    IF rows = {} THEN <<>>
    ELSE LET first == CHOOSE r \in rows : \A o \in rows \ {r} : RowBefore(r, o)
         IN  <<first>> \o OrderByTsId(rows \ {first})

\* LIMIT ? OFFSET ? -- a negative limit is no limit, a negative offset is 0
LimitOffset(seq, limit, offset) ==
    LET from == (IF offset < 0 THEN 0 ELSE offset) + 1
        upto == IF limit < 0 \/ from - 1 + limit > Len(seq)
                THEN Len(seq) ELSE from - 1 + limit
    IN  SubSeq(seq, from, upto)
\* Variant: the row handed out as it is stored, created_at included.
ItemWithCreatedAt(row) ==
    [message_id |-> row.message_id, from |-> row.from_msisdn,
     to |-> row.to_msisdn, ts |-> row.ts, text |-> row.text,
     created_at |-> row.created_at]
\* One element of "data": the external names from / to, no created_at.
Item(row) ==
    [message_id |-> row.message_id, from |-> row.from_msisdn,
     to |-> row.to_msisdn, ts |-> row.ts, text |-> row.text]
Items(seq) == [i \in 1..Len(seq) |-> Item(seq[i])]

\* SELECT COUNT(*) ... WHERE
SelectCount(rows, from_filter, since, q) ==
    Cardinality(Where(rows, from_filter, since, q))

\* --- get_stats
RECURSIVE SortStrings(_)
SortStrings(set) ==
    IF set = {} THEN <<>>
    ELSE LET first == CHOOSE a \in set : \A b \in set \ {a} : StrLess(a, b)
         IN  <<first>> \o SortStrings(set \ {first})

Senders(rows) == {r.from_msisdn : r \in rows}
CountOf(rows, f) == Cardinality({r \in rows : r.from_msisdn = f})

\* Variant: the groups in the order in which their first row was inserted.
RECURSIVE GroupByInsertion(_)
GroupByInsertion(rows) ==
    IF rows = {} THEN <<>>
    ELSE LET first == CHOOSE r \in rows :
                          \A o \in rows : r.created_at <= o.created_at
             f == first.from_msisdn
         IN  <<[from |-> f, count |-> CountOf(rows, f)]>>
             \o GroupByInsertion({r \in rows : r.from_msisdn # f})
\* GROUP BY from_msisdn with COUNT(*): the groups come out of the scan of
\* idx_messages_from, in the order of the key.
GroupBy(rows) ==
    LET keys == SortStrings(Senders(rows))
    IN  [i \in 1..Len(keys) |-> [from |-> keys[i], count |-> CountOf(rows, keys[i])]]

\* Variant: ORDER BY count ASC.
RECURSIVE OrderByCountAsc(_)
OrderByCountAsc(groups) ==
    IF groups = <<>> THEN <<>>
    ELSE LET i == CHOOSE i \in 1..Len(groups) :
                      /\ \A j \in 1..Len(groups) : groups[j].count >= groups[i].count
                      /\ \A j \in 1..(i - 1) : groups[j].count > groups[i].count
         IN  <<groups[i]>>
             \o OrderByCountAsc(SubSeq(groups, 1, i - 1)
                                \o SubSeq(groups, i + 1, Len(groups)))
\* ORDER BY count DESC: the sorter keeps groups of equal count in the order
\* in which they arrive.
RECURSIVE OrderByCountDesc(_)
OrderByCountDesc(groups) ==
    IF groups = <<>> THEN <<>>
    ELSE LET i == CHOOSE i \in 1..Len(groups) :
                      /\ \A j \in 1..Len(groups) : groups[j].count <= groups[i].count
                      /\ \A j \in 1..(i - 1) : groups[j].count < groups[i].count
         IN  <<groups[i]>>
             \o OrderByCountDesc(SubSeq(groups, 1, i - 1)
                                 \o SubSeq(groups, i + 1, Len(groups)))

\* LIMIT 10 of the per-sender query
TopSenders == 10
MessagesPerSender(rows) ==
    LET sorted == OrderByCountDesc(GroupBy(rows))
    IN  SubSeq(sorted, 1, IF Len(sorted) > TopSenders THEN TopSenders ELSE Len(sorted))

\* SELECT MIN(ts), MAX(ts): NULL on an empty table
MinTs(rows) ==
    IF rows = {} THEN NoParam
    ELSE Param((CHOOSE r \in rows : \A o \in rows : ~StrLess(o.ts, r.ts)).ts)
\* Variant: MAX(ts) taken from the row inserted last.
MaxTsLatest(rows) ==
    IF rows = {} THEN NoParam
    ELSE Param((CHOOSE r \in rows : \A o \in rows : o.created_at <= r.created_at).ts)
MaxTs(rows) ==
    IF rows = {} THEN NoParam
    ELSE Param((CHOOSE r \in rows : \A o \in rows : ~StrLess(r.ts, o.ts)).ts)

\* --- the read handler
\* The workers whose current request has been answered: a read request that
\* arrives now comes after those responses (kept in reader.after).
AnsweredWorkers == {p \in Workers : pc[p] = "responded"}

\* GET /messages: FastAPI validates limit and offset, then calls get_messages.
ListReceive(limit, offset, from_, since, q) ==
    /\ reader.pc = "idle"
    /\ LET raw == [limit |-> limit, offset |-> offset, from_ |-> from_,
                   since |-> since, q |-> q]
           l == ValidateLimit(limit)
           o == ValidateOffset(offset)
       IN  IF l.ok /\ o.ok
           THEN reader' = [IdleReader EXCEPT
                               !.pc = "count", !.op = "messages", !.raw = raw,
                               !.after = AnsweredWorkers,
                               !.limit = l.n, !.offset = [tag |-> o.tag, n |-> o.n]]
           ELSE reader' = [IdleReader EXCEPT
                               !.pc = "responded", !.op = "messages", !.raw = raw,
                               !.after = AnsweredWorkers,
                               !.exc = "RequestValidationError",
                               !.response = [status |-> 422,
                                             body |-> [detail |-> "validation error"]]]
    /\ UNCHANGED <<store, wlock, clock, pc, request, payload, txn, rstate,
                   recorded, exc, response, overlap>>

\* get_messages, the count query
ListCount ==
    /\ reader.pc = "count"
    /\ reader' = [reader EXCEPT
                      !.pc = "fetch",
                      !.queries = @ + 1,
                      !.total = SelectCount(store, reader.raw.from_,
                                            reader.raw.since, reader.raw.q)]
    /\ UNCHANGED <<store, wlock, clock, pc, request, payload, txn, rstate,
                   recorded, exc, response, overlap>>

\* get_messages, the data query and the return.  An offset above 2^63 - 1
\* cannot be bound to the statement: sqlite3 raises OverflowError, nothing
\* catches it and generic_exception_handler answers.
ListFetch ==
    /\ reader.pc = "fetch"
    /\ IF reader.offset.tag = "huge"
       THEN reader' = [reader EXCEPT
                           !.pc = "responded",
                           !.exc = "OverflowError",
                           !.response = [status |-> 500,
                                         body |-> [detail |-> "Internal server error"]]]
       ELSE LET rows == LimitOffset(OrderByTsId(Where(store, reader.raw.from_,
                                                      reader.raw.since, reader.raw.q)),
                                    reader.limit, reader.offset.n)
            IN  reader' = [reader EXCEPT
                               !.pc = "responded",
                               !.queries = @ + 1,
                               !.response =
                                   [status |-> 200,
                                    body |-> [data |-> Items(rows),
                                              total |-> reader.total,
                                              limit |-> reader.limit,
                                              offset |-> reader.offset.n]]]
    /\ UNCHANGED <<store, wlock, clock, pc, request, payload, txn, rstate,
                   recorded, exc, response, overlap>>

\* GET /stats
StatsReceive ==
    /\ reader.pc = "idle"
    /\ reader' = [IdleReader EXCEPT
                      !.pc = "total", !.op = "stats", !.after = AnsweredWorkers]
    /\ UNCHANGED <<store, wlock, clock, pc, request, payload, txn, rstate,
                   recorded, exc, response, overlap>>

\* get_stats, SELECT COUNT(*)
StatsTotal ==
    /\ reader.pc = "total"
    /\ reader' = [reader EXCEPT
                      !.pc = "senders", !.queries = @ + 1,
                      !.stats.total_messages = Cardinality(store)]
    /\ UNCHANGED <<store, wlock, clock, pc, request, payload, txn, rstate,
                   recorded, exc, response, overlap>>

\* get_stats, SELECT COUNT(DISTINCT from_msisdn)
StatsSenders ==
    /\ reader.pc = "senders"
    /\ reader' = [reader EXCEPT
                      !.pc = "top", !.queries = @ + 1,
                      !.stats.senders_count = Cardinality(Senders(store))]
    /\ UNCHANGED <<store, wlock, clock, pc, request, payload, txn, rstate,
                   recorded, exc, response, overlap>>

\* get_stats, the per-sender query
StatsTop ==
    /\ reader.pc = "top"
    /\ reader' = [reader EXCEPT
                      !.pc = "ts", !.queries = @ + 1,
                      !.stats.messages_per_sender = MessagesPerSender(store)]
    /\ UNCHANGED <<store, wlock, clock, pc, request, payload, txn, rstate,
                   recorded, exc, response, overlap>>

\* get_stats, SELECT MIN(ts), MAX(ts) and the return
StatsTs ==
    /\ reader.pc = "ts"
    /\ LET stats == [reader.stats EXCEPT
                         !.first_message_ts = MinTs(store),
                         !.last_message_ts = MaxTs(store)]
       IN  reader' = [reader EXCEPT
                          !.pc = "responded", !.queries = @ + 1,
                          !.stats = stats,
                          !.response = [status |-> 200, body |-> stats]]
    /\ UNCHANGED <<store, wlock, clock, pc, request, payload, txn, rstate,
                   recorded, exc, response, overlap>>

\* get_messages or get_stats, a statement raising sqlite3.OperationalError
\* (the file unreadable, the database locked beyond the busy timeout): neither
\* method catches it, the connection is closed by finally and
\* generic_exception_handler answers.
ReadFault ==
    /\ reader.pc \in {"count", "fetch", "total", "senders", "top", "ts"}
    /\ reader' = [reader EXCEPT
                      !.pc = "responded",
                      !.exc = "OperationalError",
                      !.response = [status |-> 500,
                                    body |-> [detail |-> "Internal server error"]]]
    /\ UNCHANGED <<store, wlock, clock, pc, request, payload, txn, rstate,
                   recorded, exc, response, overlap>>

\* The response of a read has been sent.
ReadFinish ==
    /\ reader.pc = "responded"
    /\ reader' = IdleReader
    /\ UNCHANGED <<store, wlock, clock, pc, request, payload, txn, rstate,
                   recorded, exc, response, overlap>>


\* ------------------------------------------------------------- inputs
\* The members of a JSON object written out as tokens, with or without
\* whitespace after ":" and ",".
RECURSIVE MemberToks(_, _)
MemberToks(ms, spaced) ==
    IF ms = <<>> THEN <<>>
    ELSE LET m == Head(ms)
             sp == IF spaced THEN <<WS>> ELSE <<>>
         IN  <<Str(m[1]), Tok(":")>> \o sp \o <<m[2]>>
             \o (IF Len(ms) > 1 THEN <<Tok(",")>> \o sp ELSE <<>>)
             \o MemberToks(Tail(ms), spaced)

ObjectBody(ms, spaced) == <<Tok("{")>> \o MemberToks(ms, spaced) \o <<Tok("}")>>

Fields(mid, f, t, ts) ==
    << <<K_message_id, mid>>, <<K_from, f>>, <<K_to, t>>, <<K_ts, ts>> >>

WithText(ms, tok) == Append(ms, <<K_text, tok>>)

M1 == <<"m", "1">>
M2 == <<"m", "2">>
Plus1 == <<"+", "1">>
Plus2 == <<"+", "2">>
Plus3 == <<"+", "3">>
Date1 == <<"2", "0", "2", "5", "-", "0", "1", "-", "1", "5">>
Time1 == <<"1", "0", ":", "0", "0", ":", "0", "0">>
Time2 == <<"0", "9", ":", "3", "0", ":", "5", "9">>
Ts1 == Date1 \o <<"T">> \o Time1 \o <<"Z">>
Ts2 == Date1 \o <<"T">> \o Time2 \o <<"Z">>
Hi == <<"H", "i">>

\* One well-formed message, and the pieces the variants below change.
BaseFields == Fields(Str(M1), Str(Plus1), Str(Plus2), Str(Ts1))
BaseBody == ObjectBody(WithText(BaseFields, Str(Hi)), FALSE)
\* The same JSON object in other bytes: other whitespace, other key order.
SpacedBody == ObjectBody(WithText(BaseFields, Str(Hi)), TRUE)
ReorderedBody ==
    ObjectBody(<< <<K_text, Str(Hi)>>, <<K_ts, Str(Ts1)>>, <<K_to, Str(Plus2)>>,
                  <<K_from, Str(Plus1)>>, <<K_message_id, Str(M1)>> >>, FALSE)
\* message_id m1 again, every other field different.
ReplayBody == ObjectBody(Fields(Str(M1), Str(Plus3), Str(Plus1), Str(Ts2)), FALSE)
OtherBody == ObjectBody(Fields(Str(M2), Str(Plus3), Str(Plus2), Str(Ts2)), FALSE)

FromBody(f) == ObjectBody(Fields(Str(M1), f, Str(Plus2), Str(Ts1)), FALSE)
ToBody(t) == ObjectBody(Fields(Str(M1), Str(Plus1), t, Str(Ts1)), FALSE)
TsBody(ts) == ObjectBody(Fields(Str(M2), Str(Plus1), Str(Plus2), ts), FALSE)
TextBody(tok) == ObjectBody(WithText(BaseFields, tok), FALSE)
LongText(n) == [i \in 1..n |-> "A"]

ValidBodies ==
    { BaseBody, SpacedBody, ReorderedBody, ReplayBody, OtherBody,
      TextBody(NullTok),
      TextBody(Str(<<>>)),
      TextBody(Str(LongText(MaxTextLen))),
      \* an unknown extra key
      ObjectBody(Append(BaseFields, <<<<"x">>, NumTok(<<"1">>)>>), FALSE),
      \* fractional seconds, and a leap day
      TsBody(Str(Date1 \o <<"T">> \o Time1 \o <<".", "5", "Z">>)),
      TsBody(Str(<<"2", "0", "2", "4", "-", "0", "2", "-", "2", "9", "T">>
                 \o Time2 \o <<"Z">>)) }

MalformedBodies ==
    { <<>>,
      <<Tok("junk")>>,
      <<Tok("{"), Str(K_ts)>>,
      <<Tok("["), Tok("]")>>,
      <<Str(Hi)>>,
      <<NullTok>>,
      <<Tok("{"), Tok("}")>> }

FieldBodies ==
    { \* message_id: missing, empty, not a string
      ObjectBody(Tail(BaseFields), FALSE),
      ObjectBody(Fields(Str(<<>>), Str(Plus1), Str(Plus2), Str(Ts1)), FALSE),
      ObjectBody(Fields(NumTok(<<"7">>), Str(Plus1), Str(Plus2), Str(Ts1)), FALSE),
      \* from
      FromBody(Str(<<"1", "2">>)),
      FromBody(Str(<<"+">>)),
      FromBody(Str(<<"+", "1", "a">>)),
      FromBody(Str(<<"+", "1", " ", "2">>)),
      FromBody(Str(<<"+", ArabicThree>>)),
      FromBody(Str(<<"+", "1", "\n">>)),
      FromBody(Str(<<"+", "1", "\n", "\n">>)),
      FromBody(Str(<<"+", "\n">>)),
      FromBody(NumTok(<<"1">>)),
      \* to
      ToBody(Str(<<"2">>)),
      ToBody(Str(<<"+", "2", "-", "2">>)),
      ToBody(Str(<<"+", "2", "\n">>)),
      ToBody(NullTok),
      \* ts
      TsBody(Str(Date1 \o <<"T">> \o Time1)),
      TsBody(Str(Date1 \o <<"T">> \o Time1 \o <<"+", "0", "0", ":", "0", "0">>)),
      TsBody(Str(Date1 \o <<" ">> \o Time1 \o <<"Z">>)),
      TsBody(Str(Date1 \o <<"T">> \o Time1 \o <<"Z", "\n">>)),
      TsBody(Str(Date1 \o <<"T">> \o Time1 \o <<".", "Z">>)),
      TsBody(Str(<<"2", "0", "2", "5", "-", "1", "3", "-", "0", "1", "T">>
                 \o Time1 \o <<"Z">>)),
      TsBody(Str(<<"2", "0", "2", "5", "-", "0", "2", "-", "2", "9", "T">>
                 \o Time1 \o <<"Z">>)),
      TsBody(Str(<<"2", "0", "2", "5", "-", "0", "1", "-", "0", "0", "T">>
                 \o Time1 \o <<"Z">>)),
      TsBody(Str(Date1 \o <<"T", "2", "4", ":", "0", "0", ":", "0", "0", "Z">>)),
      TsBody(Str(Date1 \o <<"T", "1", "0", ":", "0", "0", ":", "6", "0", "Z">>)),
      TsBody(Str(<<"2", "0", "2", ArabicThree, "-", "0", "1", "-", "1", "5", "T">>
                 \o Time1 \o <<"Z">>)),
      TsBody(Str(<<"0", "0", "0", "0", "-", "0", "1", "-", "1", "5", "T">>
                 \o Time1 \o <<"Z">>)),
      TsBody(NumTok(<<"1">>)),
      \* text
      TextBody(Str(LongText(MaxTextLen + 1))),
      TextBody(NumTok(<<"1">>)),
      \* from given under the field's own name instead of its alias
      ObjectBody(<< <<K_message_id, Str(M2)>>, <<K_from_, Str(Plus1)>>,
                    <<K_to, Str(Plus2)>>, <<K_ts, Str(Ts1)>> >>, FALSE) }

Bodies == ValidBodies \cup MalformedBodies \cup FieldBodies

\* The header values tried with a body: none, empty, the right digest, the
\* digest under another key, the right digest in upper case, other hex,
\* a non-ASCII value, and the digests of the other serializations.
SignaturesFor(body) ==
    { NoHeader,
      Header("empty", "", <<>>),
      HmacHexdigest(Secret, body),
      HmacHexdigest("other", body),
      Header("HMAC", Secret, body),
      Header("zeros", "", <<>>),
      Header("nonascii", "", <<>>) }
    \cup { HmacHexdigest(Secret, b) : b \in {BaseBody, SpacedBody, ReorderedBody} }

\* The requests of the concurrent specification: three valid, signed
\* messages (two of them with the same message_id) and an unsigned one.
ConcurrentInputs ==
    { <<b, HmacHexdigest(Secret, b)>> : b \in {BaseBody, ReplayBody, OtherBody} }
    \cup { <<BaseBody, NoHeader>> }

\* --- the stores and the parameters of the read specifications
\* A stored row as insert_message writes it for a valid payload.
StoredRow(message_id, from_, ts, text, now) ==
    NewRow([message_id |-> message_id, from_ |-> from_, to |-> Plus2, ts |-> ts,
            text |-> text], now)

M10 == <<"m", "1", "0">>
UpperM2 == <<"M", "2">>
M3 == <<"m", "3">>
TsFraction == Date1 \o <<"T">> \o Time1 \o <<".", "5", "Z">>
FiftyPercent == <<"5", "0", "%">>
AUnderscoreB == <<"a", "_", "b">>
AccentedHi == <<UpperEAcute, "h", "I">>

\* Five rows: two timestamps shared by several rows, one with a fraction,
\* ids that are prefixes of one another or differ in case, text that is
\* absent, holds % or _, or a letter outside ASCII.
ListRows ==
    { StoredRow(M1, Plus1, Ts1, SomeText(Hi), 1),
      StoredRow(M2, Plus2, Ts2, NoText, 2),
      StoredRow(M10, Plus1, Ts1, SomeText(FiftyPercent), 3),
      StoredRow(UpperM2, Plus3, TsFraction, SomeText(AUnderscoreB), 4),
      StoredRow(M3, Plus1, Ts2, SomeText(AccentedHi), 5) }
ListStores == SUBSET ListRows

\* The largest created_at of a table.
Latest(rows) ==
    IF rows = {} THEN 0
    ELSE CHOOSE n \in {r.created_at : r \in rows} :
             \A r \in rows : r.created_at <= n

MaxOffset == 6
LimitsTried ==
    {NoInt, NotInt, HugeInt} \cup {IntParam(n) : n \in {-1, 0, 1, 2, 3, 50, 100, 101}}
OffsetsTried ==
    {NoInt, NotInt, HugeInt} \cup {IntParam(n) : n \in -1..MaxOffset}
FromsTried ==
    {NoParam, Param(<<>>), Param(Plus1), Param(Plus2), Param(<<"+", "9">>)}
SincesTried ==
    {NoParam, Param(<<>>), Param(Ts1), Param(Ts2), Param(Date1),
     Param(<<"2", "0", "2", "6">>)}
QsTried ==
    {NoParam, Param(<<>>), Param(<<"h", "i">>), Param(<<"H", "I">>),
     Param(<<"%">>), Param(<<"_">>), Param(<<"a", "b">>), Param(<<UpperEAcute>>)}

\* Every limit with every offset and no filter; every combination of
\* filters with a few pages.
ListInputs ==
    { [limit |-> l, offset |-> o, from_ |-> NoParam, since |-> NoParam, q |-> NoParam] :
          l \in LimitsTried, o \in OffsetsTried }
    \cup
    { [limit |-> l, offset |-> o, from_ |-> f, since |-> s, q |-> q] :
          l \in {NoInt, IntParam(1), IntParam(2)},
          o \in {NoInt, IntParam(1), IntParam(3)},
          f \in FromsTried, s \in SincesTried, q \in QsTried }

\* --- the tables of the statistics specification
DigitChar(d) == CHOOSE c \in AsciiDigits : DigitVal(c) = d
\* str(n) for 0 <= n < 100
NatStr(n) ==
    IF n < 10 THEN <<DigitChar(n)>>
    ELSE <<DigitChar(n \div 10), DigitChar(n % 10)>>

MaxSenders == 12

\* A table with senders +1 .. +k, one message each and a second message for
\* the senders of twice, inserted sender by sender and then the second
\* messages.  The timestamps alternate, so the earliest and the latest row
\* are neither the first nor the last inserted.
StatsStore(k, twice) ==
    { StoredRow(<<"s">> \o NatStr(i) \o <<"a">>, <<"+">> \o NatStr(i),
                IF i % 2 = 0 THEN Ts2 ELSE Ts1, SomeText(Hi), i) : i \in 1..k }
    \cup
    { StoredRow(<<"s">> \o NatStr(i) \o <<"b">>, <<"+">> \o NatStr(i),
                TsFraction, NoText, k + i) : i \in twice }

\* ------------------------------------------------------ specifications
\* Several workers on one database, a few requests.
Next ==
    \E p \in Workers :
        \/ \E in \in ConcurrentInputs : Receive(p, in[1], in[2])
        \/ VerifySig(p)
        \/ Validate(p)
        \/ ExecInsert(p)
        \/ ExecInsertLocked(p)
        \/ ExecInsertFault(p)
        \/ Commit(p)
        \/ CommitFault(p)
        \/ Finish(p)

Spec == Init /\ [][Next]_vars

\* One worker, every body and header of the input space.
NextIngest ==
    \/ \E body \in Bodies : \E sig \in SignaturesFor(body) : Receive(1, body, sig)
    \/ VerifySig(1)
    \/ Validate(1)
    \/ ExecInsert(1)
    \/ ExecInsertFault(1)
    \/ Commit(1)
    \/ CommitFault(1)
    \/ Finish(1)

SpecIngest == Init /\ [][NextIngest]_vars

\* GET /messages on every table of ListStores, the data unchanged.
InitList == \E rows \in ListStores : Started(rows, Latest(rows))

NextList ==
    \/ \E in \in ListInputs :
           ListReceive(in.limit, in.offset, in.from_, in.since, in.q)
    \/ ListCount
    \/ ListFetch
    \/ ReadFinish

SpecList == InitList /\ [][NextList]_vars

\* GET /stats on tables of up to MaxSenders senders, the data unchanged.
InitStats ==
    \E k \in 0..MaxSenders : \E twice \in SUBSET (1..k) :
        Started(StatsStore(k, twice), Latest(StatsStore(k, twice)))

NextStats ==
    \/ StatsReceive
    \/ StatsTotal
    \/ StatsSenders
    \/ StatsTop
    \/ StatsTs
    \/ ReadFinish

SpecStats == InitStats /\ [][NextStats]_vars

\* GET /messages and GET /stats on every table of ListStores, the data
\* unchanged.
NextReads ==
    \/ \E in \in ListInputs :
           ListReceive(in.limit, in.offset, in.from_, in.since, in.q)
    \/ ListCount
    \/ ListFetch
    \/ StatsReceive
    \/ StatsTotal
    \/ StatsSenders
    \/ StatsTop
    \/ StatsTs
    \/ ReadFinish

SpecReads == InitList /\ [][NextReads]_vars

\* One webhook worker and the read handler side by side on one database:
\* signed posts of valid bodies (with and without text, text null, a second
\* message_id, a fractional ts), of a body that is no JSON and of a body that
\* is no object, an unsigned post, and unfiltered reads.
ServiceBodies ==
    { BaseBody, ReplayBody, OtherBody, TextBody(NullTok),
      TsBody(Str(TsFraction)), <<Tok("{")>>, <<Tok("["), Tok("]")>> }
ServiceInputs ==
    { <<b, HmacHexdigest(Secret, b)>> : b \in ServiceBodies }
    \cup { <<BaseBody, NoHeader>> }
ServiceReads ==
    { [limit |-> l, offset |-> o, from_ |-> NoParam, since |-> NoParam, q |-> NoParam] :
          l \in {NoInt, IntParam(1)}, o \in {NoInt, IntParam(1)} }

NextService ==
    \/ \E in \in ServiceInputs : Receive(1, in[1], in[2])
    \/ VerifySig(1)
    \/ Validate(1)
    \/ ExecInsert(1)
    \/ ExecInsertFault(1)
    \/ Commit(1)
    \/ CommitFault(1)
    \/ Finish(1)
    \/ \E in \in ServiceReads :
           ListReceive(in.limit, in.offset, in.from_, in.since, in.q)
    \/ ListCount
    \/ ListFetch
    \/ StatsReceive
    \/ StatsTotal
    \/ StatsSenders
    \/ StatsTop
    \/ StatsTs
    \/ ReadFault
    \/ ReadFinish

SpecService == Init /\ [][NextService]_vars

\* ------------------------------------------------------------- claims
Responded(p) == pc[p] = "responded"
RowsOf(rows, message_id) == {r \in rows : r.message_id = message_id}
\* The request of worker p carries the digest of its own raw body.
SignedRight(p) == request[p].x_signature = HmacHexdigest(Secret, request[p].body)
\* insert_message has just returned to the handler of worker p.
InsertReturns(p) == pc[p] \in {"validated", "pending"} /\ pc'[p] = "responded"

\* No two rows of the table share a message_id.
C1_UniqueRows ==
    \A r1, r2 \in store : r1.message_id = r2.message_id => r1 = r2

\* What a return of insert_message without a storage fault does.
C1_InsertStep ==
    \A p \in Workers :
        (InsertReturns(p) /\ exc'[p] # "OperationalError") =>
            LET m == payload[p].message_id
            IN  IF HasRow(store, m)
                THEN /\ rstate'[p].webhook_result = "duplicate"
                     /\ store' = store
                ELSE /\ rstate'[p].webhook_result = "created"
                     /\ store' = store \cup RowsOf(store', m)
                     /\ Cardinality(RowsOf(store', m)) = 1
                     /\ \A r \in RowsOf(store', m) :
                            /\ r.from_msisdn = payload[p].from_
                            /\ r.to_msisdn = payload[p].to
                            /\ r.ts = payload[p].ts
                            /\ r.text = payload[p].text

\* C1.  Idempotent ingestion, storage faults apart: when insert_message
\* returns without a storage fault, the request is classified duplicate
\* exactly when a row with its message_id was already stored, and then the
\* table is left as it was; otherwise it is classified created and the table
\* gains the one row of the payload.  So the first POST of a payload is
\* created, the second duplicate, and no two rows ever share a message_id.
C1_Idempotent == [](C1_UniqueRows) /\ [][C1_InsertStep]_vars

\* C1 witness: a replay of a stored message_id answered as duplicate without
\* any fault, the table holding exactly one row for it.
C1_Witness ==
    \E p \in Workers :
        /\ Responded(p)
        /\ rstate[p].webhook_result = "duplicate"
        /\ exc[p] = "IntegrityError"
        /\ Cardinality(RowsOf(store, payload[p].message_id)) = 1

\* The current requests of p and q were being handled at the same time.
Overlap(p, q) == q \in overlap[p] /\ p \in overlap[q]

\* C2.  Valid, signed requests with the same message_id handled at the same
\* time: of two such requests, both answered, at most one is classified
\* created (the other is duplicate), and exactly one row with their
\* message_id is in the table.
C2_ConcurrentSameId ==
    \A p, q \in Workers :
        ( /\ p # q
          /\ Responded(p) /\ Responded(q)
          /\ Overlap(p, q)
          /\ response[p].status = 200 /\ response[q].status = 200
          /\ payload[p].message_id = payload[q].message_id ) =>
            /\ ~ ( /\ rstate[p].webhook_result = "created"
                   /\ rstate[q].webhook_result = "created" )
            /\ Cardinality(RowsOf(store, payload[p].message_id)) = 1

\* C3.  A storage fault in the insert ends the request in an internal error
\* (500), not in one of the created, duplicate or validation outcomes.
C3_FaultIs500 ==
    \A p \in Workers :
        (Responded(p) /\ exc[p] = "OperationalError") =>
            /\ response[p].status = 500
            /\ rstate[p].webhook_result
                   \notin {"created", "duplicate", "validation_error"}

\* C4.  When the webhook answers 200, a row with the request's message_id is
\* in the table.
C4_OkMeansStored ==
    \A p \in Workers :
        (Responded(p) /\ response[p].status = 200) =>
            HasRow(store, payload[p].message_id)

\* C5.  A stored row stays as it is: every step keeps every row of the
\* table, field for field.
C5_RowsImmutable == [][\A r \in store : r \in store']_vars

\* C5 witness: a replay of a stored message_id with other field values has
\* been answered, and the first row is still the one stored.
C5_Witness ==
    \E p \in Workers :
        /\ Responded(p)
        /\ rstate[p].webhook_result = "duplicate"
        /\ \E r \in store :
              /\ r.message_id = payload[p].message_id
              /\ r.ts # payload[p].ts
              /\ r.from_msisdn # payload[p].from_


\* What the specification asks of the fields, written from its words and not
\* from the code: "+" followed by one or more decimal digits and nothing else.
ClaimE164(s) ==
    /\ Len(s) >= 2
    /\ s[1] = "+"
    /\ \A i \in 2..Len(s) : s[i] \in AsciiDigits

\* YYYY-MM-DDTHH:MM:SS, an optional fraction, and Z as the last character.
ClaimTsShape(s) ==
    LET n == Len(s)
        D(i) == s[i] \in AsciiDigits
    IN  /\ n >= 20
        /\ \A i \in {1, 2, 3, 4, 6, 7, 9, 10, 12, 13, 15, 16, 18, 19} : D(i)
        /\ s[5] = "-" /\ s[8] = "-" /\ s[11] = "T" /\ s[14] = ":" /\ s[17] = ":"
        /\ s[n] = "Z"
        /\ (n > 20 => (s[20] = "." /\ n >= 22 /\ \A i \in 21..(n - 1) : D(i)))

\* The fields name a month, a day of that month and a time of day.
ClaimRealInstant(s) ==
    LET y == Num4(s, 1)  m == Num2(s, 6)  d == Num2(s, 9)
        leap == (y % 4 = 0 /\ y % 100 # 0) \/ y % 400 = 0
        days == CASE m \in {1, 3, 5, 7, 8, 10, 12} -> 31
                  [] m \in {4, 6, 9, 11} -> 30
                  [] m = 2 -> IF leap THEN 29 ELSE 28
                  [] OTHER -> 0
    IN  /\ d >= 1 /\ d <= days
        /\ Num2(s, 12) <= 23 /\ Num2(s, 15) <= 59 /\ Num2(s, 18) <= 59

ClaimTsOk(s) == ClaimTsShape(s) /\ ClaimRealInstant(s)

\* The parsed object of worker p's body; whether key k of it is there, holds
\* a string, and which.
BodyOf(p) == JsonLoads(request[p].body)
Given(p, k) == BodyOf(p).isdict /\ k \in DOMAIN BodyOf(p).dict
IsStrField(p, k) == BodyOf(p).dict[k].t = "str"
FieldOf(p, k) == BodyOf(p).dict[k].v
\* Worker p's request has just been answered with one of the given statuses.
Answers(p, statuses) ==
    pc[p] # "responded" /\ pc'[p] = "responded" /\ response'[p].status \in statuses

\* The answer to a request whose header is absent or is not the digest of
\* its body.
C6_Answer ==
    \A p \in Workers :
        (Responded(p) /\ ~SignedRight(p)) =>
            /\ response[p].status = 401
            /\ response[p].body = "invalid signature"
            /\ rstate[p].webhook_result = "invalid_signature"

\* C6.  A request without X-Signature, or with a value that is not the digest
\* of its body, whatever the value, is answered 401 "invalid signature", is
\* classified invalid_signature and leaves the table unchanged.
C6_InvalidSignature ==
    /\ [](C6_Answer)
    /\ [][\A p \in Workers : Answers(p, {401}) => store' = store]_vars

\* C7.  A request passes the signature check if and only if its X-Signature
\* is the hex HMAC-SHA256 of the raw body it carries under the shared secret.
C7_SignatureIff ==
    \A p \in Workers :
        pc[p] \notin {"idle", "received"} =>
            ( ( \/ pc[p] \in {"verified", "validated", "pending"}
                \/ Responded(p) /\ response[p].status \in {200, 422} )
              <=> SignedRight(p) )

\* C7 witness: the digest of another serialization of the same JSON object
\* (other whitespace or key order) has been refused.
C7_Witness ==
    \E p \in Workers :
        /\ Responded(p)
        /\ response[p].status = 401
        /\ request[p].x_signature.tag = "hmac"
        /\ request[p].x_signature.key = Secret
        /\ request[p].x_signature.msg # request[p].body
        /\ BodyOf(p).isdict
        /\ JsonLoads(request[p].x_signature.msg) = BodyOf(p)

\* The body breaks one of the rules the claim lists: it is no JSON, no JSON
\* object, or has an empty message_id, a bad from, to or ts, or a text of
\* more than 4096 characters.
ClaimViolation(p) ==
    \/ ~BodyOf(p).ok
    \/ ~BodyOf(p).isdict
    \/ Given(p, K_message_id) /\ ~(IsStrField(p, K_message_id) /\ Len(FieldOf(p, K_message_id)) >= 1)
    \/ Given(p, K_from) /\ ~(IsStrField(p, K_from) /\ ClaimE164(FieldOf(p, K_from)))
    \/ Given(p, K_to) /\ ~(IsStrField(p, K_to) /\ ClaimE164(FieldOf(p, K_to)))
    \/ Given(p, K_ts) /\ ~(IsStrField(p, K_ts) /\ ClaimTsOk(FieldOf(p, K_ts)))
    \/ /\ Given(p, K_text)
       /\ BodyOf(p).dict[K_text].t = "str"
       /\ Len(BodyOf(p).dict[K_text].v) > MaxTextLen

\* The answer to a correctly signed request whose body breaks a rule.
C8_Answer ==
    \A p \in Workers :
        (Responded(p) /\ SignedRight(p) /\ ClaimViolation(p)) =>
            /\ response[p].status = 422
            /\ rstate[p].webhook_result = "validation_error"

\* C8.  A correctly signed request whose body is no JSON, no JSON object or
\* breaks a field rule is answered 422, is classified validation_error and
\* leaves the table unchanged.
C8_ValidationError ==
    /\ [](C8_Answer)
    /\ [][\A p \in Workers : Answers(p, {422}) => store' = store]_vars

\* C9.  Every stored from and to is "+" followed by digits and nothing else,
\* and a correctly signed payload whose from or to is not is answered 422.
C9_E164 ==
    /\ \A r \in store : ClaimE164(r.from_msisdn) /\ ClaimE164(r.to_msisdn)
    /\ \A p \in Workers :
         ( /\ Responded(p) /\ SignedRight(p)
           /\ \/ Given(p, K_from) /\ ~(IsStrField(p, K_from) /\ ClaimE164(FieldOf(p, K_from)))
              \/ Given(p, K_to) /\ ~(IsStrField(p, K_to) /\ ClaimE164(FieldOf(p, K_to))) ) =>
             response[p].status = 422

\* C10.  Every stored ts has the shape YYYY-MM-DDTHH:MM:SS[.fraction]Z and
\* is a real calendar instant, and a correctly signed payload whose ts is
\* not (no Z, an offset, a space for T, month 13, ...) is answered 422.
C10_Timestamp ==
    /\ \A r \in store : ClaimTsOk(r.ts)
    /\ \A p \in Workers :
         ( /\ Responded(p) /\ SignedRight(p)
           /\ Given(p, K_ts) /\ ~(IsStrField(p, K_ts) /\ ClaimTsOk(FieldOf(p, K_ts))) ) =>
             response[p].status = 422

\* C10 witness: a ts with fractional seconds is stored, and a ts that the
\* pattern lets through but that is no calendar instant has been refused.
C10_Witness ==
    /\ \E r \in store : Len(r.ts) > 20
    /\ \E p \in Workers :
         /\ Responded(p) /\ SignedRight(p)
         /\ response[p].status = 422
         /\ Given(p, K_ts) /\ IsStrField(p, K_ts)
         /\ MatchISO8601(FieldOf(p, K_ts))
         /\ ~ClaimTsOk(FieldOf(p, K_ts))

\* C11.  Idempotency is invisible to the caller: every valid, correctly
\* signed webhook request that has been answered got status 200 and the body
\* {"status":"ok"}, the same response whether its message_id was new
\* (created) or already stored (duplicate); the distinction is only in
\* request.state and in the counter.
C11_ReplayInvisible ==
    \A p \in Workers :
        ( /\ Responded(p)
          /\ SignedRight(p)
          /\ ParseAndValidate(request[p].body).ok ) =>
            /\ response[p] = [status |-> 200, body |-> "ok"]
            /\ rstate[p].webhook_result \in {"created", "duplicate"}
            /\ recorded[p] = <<rstate[p].webhook_result>>

\* C11 witness: two answered requests for one message_id, the first stored
\* as created and the replay found as duplicate, with identical responses.
C11_Witness ==
    \E p, q \in Workers :
        /\ Responded(p) /\ Responded(q)
        /\ payload[p].message_id = payload[q].message_id
        /\ rstate[p].webhook_result = "created" /\ exc[p] = "none"
        /\ rstate[q].webhook_result = "duplicate" /\ exc[q] = "IntegrityError"
        /\ HasRow(store, payload[p].message_id)
        /\ response[p] = response[q]

\* --- claims about GET /messages
\* The reader has answered a GET /messages request with a page.
Listed == reader.pc = "responded" /\ reader.op = "messages" /\ reader.response.status = 200
Page == reader.response.body.data

\* Plain string comparison, from its definition: a comes before b when, at
\* the first position where they differ, a has ended or has the smaller
\* character.
ClaimStrBefore(a, b) ==
    \E k \in 1..Len(b) :
        /\ k <= Len(a) + 1
        /\ \A i \in 1..(k - 1) : a[i] = b[i]
        /\ (k = Len(a) + 1 \/ CodePoint(a[k]) < CodePoint(b[k]))

\* C12.  The items of a GET /messages page are in ascending order of ts,
\* items of equal ts in ascending order of message_id, both as plain strings;
\* the order leaves no two items tied, so the same data gives the same sequence
\* on every call, whatever the order of insertion was.
C12_Ordered ==
    Listed =>
        \A i, j \in 1..Len(Page) :
            i < j =>
                \/ ClaimStrBefore(Page[i].ts, Page[j].ts)
                \/ /\ Page[i].ts = Page[j].ts
                   /\ ClaimStrBefore(Page[i].message_id, Page[j].message_id)

\* C12 witness: a page of the whole table in which two items share a ts and
\* one item was inserted after an item that it precedes.
C12_Witness ==
    /\ Listed
    /\ Len(Page) = Cardinality(store)
    /\ \E i, j \in 1..Len(Page) : i < j /\ Page[i].ts = Page[j].ts
    /\ \E r1, r2 \in store :
          /\ r1.created_at > r2.created_at
          /\ \E i, j \in 1..Len(Page) :
                i < j /\ Page[i].message_id = r1.message_id
                      /\ Page[j].message_id = r2.message_id

\* The from and since filters as the specification words them: a supplied from
\* keeps the rows whose from is that very string, a supplied since keeps the
\* rows whose ts is not before it, an omitted parameter keeps every row.
ClaimFromSince(row, from_, since) ==
    /\ ~from_.isnull => row.from_msisdn = from_.v
    /\ ~since.isnull => ~ClaimStrBefore(row.ts, since.v)

\* The rows the from and since of the request keep, among those its q keeps.
ClaimFromSinceRows ==
    {r \in Where(store, NoParam, NoParam, reader.raw.q) :
         ClaimFromSince(r, reader.raw.from_, reader.raw.since)}

\* C13.  For every from and since supplied to GET /messages, the rows
\* counted and returned are exactly the stored rows whose from equals the from
\* value and whose ts is >= the since value as strings, in conjunction with
\* the q filter; an omitted parameter imposes no constraint.
C13_FromSince ==
    Listed =>
        /\ reader.response.body.total = Cardinality(ClaimFromSinceRows)
        /\ \A i \in 1..Len(Page) : \E r \in ClaimFromSinceRows : Page[i] = Item(r)
        /\ (reader.offset.n = 0 /\ reader.limit >= Cardinality(ClaimFromSinceRows)) =>
               Len(Page) = Cardinality(ClaimFromSinceRows)

\* q occurs in text as a literal substring, letters compared without regard
\* to case.
ClaimContains(text, q) ==
    \E start \in 1..(Len(text) - Len(q) + 1) :
        \A k \in 1..Len(q) : PyLowerChar(text[start + k - 1]) = PyLowerChar(q[k])

\* The rows the q of the request keeps, among those its from and since keep.
ClaimTextRows ==
    {r \in Where(store, reader.raw.from_, reader.raw.since, NoParam) :
         ~r.text.isnull /\ ClaimContains(r.text.v, reader.raw.q.v)}

\* C14.  For every non-empty q supplied to GET /messages, the rows counted
\* and returned are exactly the stored rows whose text is present and contains
\* q as a case-insensitive literal substring, % and _ included; a row without
\* text never matches.
C14_TextQuery ==
    (Listed /\ Truthy(reader.raw.q)) =>
        /\ reader.response.body.total = Cardinality(ClaimTextRows)
        /\ \A i \in 1..Len(Page) : \E r \in ClaimTextRows : Page[i] = Item(r)

\* The request passed the validation of limit and offset.
Accepted ==
    /\ reader.pc = "responded" /\ reader.op = "messages"
    /\ ValidateLimit(reader.raw.limit).ok
    /\ ValidateOffset(reader.raw.offset).ok

\* The stored rows matching the filters of the request, as the
\* specification words the three filters.
ClaimRows ==
    {r \in store :
         /\ ClaimFromSince(r, reader.raw.from_, reader.raw.since)
         /\ Truthy(reader.raw.q) =>
                (~r.text.isnull /\ ClaimContains(r.text.v, reader.raw.q.v))}

\* C15.  The total of GET /messages is the number of stored rows matching
\* the filters, whatever valid limit and offset come with them.
C15_Total ==
    Accepted =>
        /\ reader.response.status = 200
        /\ reader.response.body.total = Cardinality(ClaimRows)

\* The elements of seq at positions offset + 1 .. offset + limit.
ClaimSlice(seq, limit, offset) ==
    [i \in 1..(IF Len(seq) - offset < 0 THEN 0
               ELSE IF Len(seq) - offset < limit THEN Len(seq) - offset
               ELSE limit) |-> seq[offset + i]]

\* C16.  The items of GET /messages are the elements at positions offset ..
\* offset + limit - 1 of the ordered list of matching rows: at most limit of
\* them, exactly min(limit, max(0, total - offset)), and none, with the
\* total unchanged, when offset is at or beyond the number of matching rows.
C16_Slice ==
    Accepted =>
        /\ reader.response.status = 200
        /\ reader.response.body.total = Cardinality(ClaimRows)
        /\ IF reader.offset.tag = "huge" THEN Page = <<>>
           ELSE /\ Page = Items(ClaimSlice(OrderByTsId(ClaimRows), reader.limit,
                                           reader.offset.n))
                /\ Len(Page) <= reader.limit
                /\ Len(Page) =
                       LET left == reader.response.body.total - reader.offset.n
                       IN  IF left < 0 THEN 0
                           ELSE IF left < reader.limit THEN left ELSE reader.limit

\* A limit outside 1..100 or an offset below 0 was supplied (or a value that
\* is no integer at all).
LimitOutOfRange ==
    /\ reader.raw.limit.tag # "none"
    /\ ~(reader.raw.limit.tag = "int" /\ reader.raw.limit.n \in 1..100)
OffsetOutOfRange ==
    \/ reader.raw.offset.tag = "text"
    \/ reader.raw.offset.tag = "int" /\ reader.raw.offset.n < 0

\* C17.  GET /messages with a limit outside 1..100 or an offset below 0 is
\* answered 422 before any query reaches the store; a request within range is
\* not answered 422, and its response echoes the limit and offset supplied,
\* 50 and 0 when they were omitted, never a value clamped into range.
C17_LimitOffsetRange ==
    (reader.pc = "responded" /\ reader.op = "messages") =>
        /\ (LimitOutOfRange \/ OffsetOutOfRange) =>
               /\ reader.response.status = 422
               /\ reader.queries = 0
        /\ ~(LimitOutOfRange \/ OffsetOutOfRange) => reader.response.status # 422
        /\ reader.response.status = 200 =>
               /\ reader.response.body.limit =
                      (IF reader.raw.limit.tag = "none" THEN 50 ELSE reader.raw.limit.n)
               /\ reader.response.body.offset =
                      (IF reader.raw.offset.tag = "none" THEN 0 ELSE reader.raw.offset.n)
               /\ reader.response.body.limit \in 1..100
               /\ reader.response.body.offset >= 0
               /\ Len(Page) <= reader.response.body.limit

\* C17 witness: limit=101 on a table with rows, answered 422 with no query
\* made.
C17_Witness ==
    /\ reader.pc = "responded" /\ reader.op = "messages"
    /\ reader.raw.limit = IntParam(101)
    /\ reader.raw.offset = IntParam(0)
    /\ store # {}
    /\ reader.response.status = 422
    /\ reader.queries = 0

\* --- claims about GET /stats
\* The reader has answered a GET /stats request.
StatsAnswered ==
    reader.pc = "responded" /\ reader.op = "stats" /\ reader.response.status = 200
Stats == reader.response.body

\* C18.  GET /stats reports total_messages as the number of stored rows,
\* senders_count as the number of distinct from values, and first_message_ts
\* and last_message_ts as the least and the greatest stored ts by string
\* comparison, both null exactly when the table is empty.
C18_Stats ==
    StatsAnswered =>
        /\ Stats.total_messages = Cardinality(store)
        /\ Stats.senders_count = Cardinality({r.from_msisdn : r \in store})
        /\ Stats.first_message_ts.isnull <=> store = {}
        /\ Stats.last_message_ts.isnull <=> store = {}
        /\ store # {} =>
               /\ \E r \in store : r.ts = Stats.first_message_ts.v
               /\ \E r \in store : r.ts = Stats.last_message_ts.v
               /\ \A r \in store :
                      /\ ~ClaimStrBefore(r.ts, Stats.first_message_ts.v)
                      /\ ~ClaimStrBefore(Stats.last_message_ts.v, r.ts)

\* C18 witness: statistics of a table with more rows than senders, whose
\* latest timestamp is not that of the row inserted last.
C18_Witness ==
    /\ StatsAnswered
    /\ Stats.senders_count >= 2
    /\ Stats.total_messages > Stats.senders_count
    /\ Stats.first_message_ts # Stats.last_message_ts
    /\ \E r \in store :
          /\ r.created_at = Latest(store)
          /\ r.ts # Stats.last_message_ts.v

PerSender == Stats.messages_per_sender

\* C19.  messages_per_sender has min(10, senders_count) entries, each a
\* distinct sender with the exact number of its rows, in descending order of
\* count, and no sender left out has more rows than a sender listed.
C19_TopSenders ==
    StatsAnswered =>
        LET all == {r.from_msisdn : r \in store}
            listed == {PerSender[i].from : i \in 1..Len(PerSender)}
            rowsOf(f) == Cardinality({r \in store : r.from_msisdn = f})
        IN  /\ Len(PerSender) = (IF Cardinality(all) < 10 THEN Cardinality(all) ELSE 10)
            /\ listed \subseteq all
            /\ Cardinality(listed) = Len(PerSender)
            /\ \A i \in 1..Len(PerSender) : PerSender[i].count = rowsOf(PerSender[i].from)
            /\ \A i, j \in 1..Len(PerSender) :
                   i < j => PerSender[i].count >= PerSender[j].count
            /\ \A f \in all \ listed : \A g \in listed : rowsOf(f) <= rowsOf(g)

\* C19 witness: more than ten senders, some with two rows and some with one,
\* so that senders are left out and the list has both counts.
C19_Witness ==
    /\ StatsAnswered
    /\ Stats.senders_count > 10
    /\ Len(PerSender) = 10
    /\ PerSender[1].count > PerSender[10].count

\* The same rows put into a fresh table in the opposite order.
Reinserted(rows) ==
    {[r EXCEPT !.created_at = Latest(rows) + 1 - r.created_at] : r \in rows}

ClaimFields(ts) ==
    <<Num4(ts, 1), Num2(ts, 6), Num2(ts, 9), Num2(ts, 12), Num2(ts, 15), Num2(ts, 18)>>
\* The digits of the fraction of a second, none when there is no fraction.
ClaimFraction(ts) == IF Len(ts) > 20 THEN SubSeq(ts, 21, Len(ts) - 1) ELSE <<>>
\* The i-th decimal of a fraction: 0 beyond its last digit.
ClaimDecimal(f, i) == IF i <= Len(f) THEN DigitVal(f[i]) ELSE 0

\* The instant a denotes is earlier than the instant b denotes.
ClaimInstantBefore(a, b) ==
    LET fa == ClaimFields(a)
        fb == ClaimFields(b)
        da == ClaimFraction(a)
        db == ClaimFraction(b)
    IN  \/ \E k \in 1..6 : (\A i \in 1..(k - 1) : fa[i] = fb[i]) /\ fa[k] < fb[k]
        \/ /\ fa = fb
           /\ \E k \in 1..(Len(da) + Len(db)) :
                  /\ \A i \in 1..(k - 1) : ClaimDecimal(da, i) = ClaimDecimal(db, i)
                  /\ ClaimDecimal(da, k) < ClaimDecimal(db, k)

\* C21.  For any two stored messages whose ts the validator accepts, the ts
\* strings compare lexicographically as the instants they denote compare, so
\* that ts order is chronological order.
C21_LexIsChronological ==
    \A r1, r2 \in store :
        (ValidateTs(r1.ts) /\ ValidateTs(r2.ts)) =>
            (ClaimStrBefore(r1.ts, r2.ts) <=> ClaimInstantBefore(r1.ts, r2.ts))

\* --- webhook and reads together
\* The text submitted in worker p's body: null when the key is absent or null.
SubmittedText(p) ==
    IF Given(p, K_text) /\ IsStrField(p, K_text)
    THEN SomeText(FieldOf(p, K_text)) ELSE NoText

\* The first request the service ever received has been accepted (answered
\* 200) and, after that answer, an unfiltered GET /messages with the default
\* limit and offset has been answered.
FirstAcceptedThenListed ==
    /\ clock = 1
    /\ Responded(1) /\ response[1].status = 200
    /\ Listed
    /\ reader.raw = NoParams
    /\ 1 \in reader.after

\* C22.  Round trip: once a payload has been accepted by POST /webhook into
\* an empty store, GET /messages returns exactly one item, with the submitted
\* message_id, from, to, ts and text (null when absent) under the names
\* message_id, from, to, ts, text.
C22_RoundTrip ==
    FirstAcceptedThenListed =>
        /\ reader.response.body.total = 1
        /\ Page = << [message_id |-> FieldOf(1, K_message_id),
                      from |-> FieldOf(1, K_from),
                      to |-> FieldOf(1, K_to),
                      ts |-> FieldOf(1, K_ts),
                      text |-> SubmittedText(1)] >>

\* The exceptions the service can raise while it handles a request.
Exceptions == {"JSONDecodeError", "TypeError", "ValidationError",
               "IntegrityError", "OperationalError", "OverflowError"}

\* The text of an exception that is raised inside the service.
InternalTexts == {ExceptionText(e) : e \in {"JSONDecodeError", "TypeError", "ValidationError"}}

\* A read has been answered after a fault that get_messages / get_stats let
\* through.
ReadFaulted == reader.pc = "responded" /\ reader.exc \in Exceptions

\* C23.  A fault no handler catches is answered 500 with the body
\* {"detail": "Internal server error"}, and no response of any path carries
\* the text of an internal exception.
C23_NoInternalText ==
    /\ ReadFaulted =>
          /\ reader.response.status = 500
          /\ reader.response.body = [detail |-> "Internal server error"]
    /\ \A p \in Workers :
          Responded(p) => response[p].body \notin InternalTexts
    /\ reader.pc = "responded" =>
          (reader.response.status # 200 =>
               reader.response.body.detail \notin InternalTexts)

\* The four keys every payload must carry, under the names of the wire format.
RequiredKeys == {K_message_id, K_from, K_to, K_ts}

\* The body of worker p is a JSON object that lacks one of the required keys.
LacksKey(p) == BodyOf(p).isdict /\ \E k \in RequiredKeys : ~Given(p, k)

\* The body of worker p is a JSON object with the four required keys, each
\* holding a valid value (the ts in the years 0001 to 9999), and with no text,
\* a null text or a text of at most 4096 characters.
AllKeysValid(p) ==
    /\ \A k \in RequiredKeys : Given(p, k) /\ IsStrField(p, k)
    /\ Len(FieldOf(p, K_message_id)) >= 1
    /\ ClaimE164(FieldOf(p, K_from))
    /\ ClaimE164(FieldOf(p, K_to))
    /\ ClaimTsOk(FieldOf(p, K_ts)) /\ Num4(FieldOf(p, K_ts), 1) >= 1
    /\ Given(p, K_text) =>
          \/ BodyOf(p).dict[K_text].t = "null"
          \/ IsStrField(p, K_text) /\ Len(FieldOf(p, K_text)) <= MaxTextLen

\* C24.  A correctly signed payload that lacks one of the keys message_id,
\* from, to, ts is answered 422 and no row is stored for it; a payload with
\* the four keys valid is accepted, with or without text and whatever other
\* keys it carries.
C24_RequiredKeys ==
    \A p \in Workers :
        (Responded(p) /\ SignedRight(p)) =>
            /\ LacksKey(p) =>
                  /\ response[p].status = 422
                  /\ ~\E r \in store : r.created_at = clock
            /\ AllKeysValid(p) => response[p].status = 200

\* A row with the message_id of worker p's payload was in the table before
\* the request of worker p came in (one worker: created_at is the time of the
\* request that wrote the row).
ExistedBefore(p) ==
    \E r \in store : r.message_id = payload[p].message_id /\ r.created_at < clock

\* C25.  A request is classified duplicate only if a row with its message_id
\* was already in the table when the insert was attempted; a storage fault of
\* another kind is never reported as duplicate; and a duplicate is answered
\* 200 like a first delivery, not as an error.
C25_DuplicateOnlyOnKey ==
    \A p \in Workers :
        Responded(p) =>
            /\ rstate[p].webhook_result = "duplicate" =>
                  /\ ExistedBefore(p)
                  /\ exc[p] = "IntegrityError"
                  /\ response[p] = [status |-> 200, body |-> "ok"]
            /\ exc[p] = "OperationalError" =>
                  /\ rstate[p].webhook_result # "duplicate"
                  /\ rstate[p].webhook_dup # "True"

\* C25 witness: a replay of a stored message_id has been classified
\* duplicate and answered 200.
C25_Witness ==
    \E p \in Workers :
        /\ Responded(p)
        /\ rstate[p].webhook_result = "duplicate"
        /\ ExistedBefore(p)
        /\ response[p].status = 200

\* The request of worker p has been through the parse-and-validate step: its
\* payload is set, or the step has refused it.
Parsed(p) ==
    \/ payload[p] # NoPayload
    \/ exc[p] \in {"JSONDecodeError", "ValidationError"}
    \/ Responded(p) /\ response[p].status = 422

\* The insert of worker p's request has been attempted.
InsertAttempted(p) ==
    \/ pc[p] = "pending"
    \/ exc[p] \in {"IntegrityError", "OperationalError"}
    \/ Responded(p) /\ rstate[p].webhook_result \in {"created", "duplicate"}

\* C26.  The handler goes through signature check, then parse and validation,
\* then insert: a request with a missing or wrong signature is answered 401
\* whatever its body, the body is parsed only after the signature has been
\* verified, and the insert is attempted only after validation has succeeded.
C26_FixedOrder ==
    \A p \in Workers :
        /\ (Responded(p) /\ ~SignedRight(p)) => response[p].status = 401
        /\ Parsed(p) => SignedRight(p)
        /\ InsertAttempted(p) =>
              /\ SignedRight(p)
              /\ ParseAndValidate(request[p].body).ok
              /\ payload[p] = ParseAndValidate(request[p].body).payload

\* The outcomes a webhook request can be classified as.
Outcomes == {"invalid_signature", "validation_error", "created", "duplicate"}

\* The outcome of the branch worker p's request has taken, read from its
\* response and from what its insert met.
BranchTaken(p) ==
    CASE response[p].status = 401 -> "invalid_signature"
      [] response[p].status = 422 -> "validation_error"
      [] response[p].status = 200 /\ exc[p] = "IntegrityError" -> "duplicate"
      [] response[p].status = 200 /\ exc[p] # "IntegrityError" -> "created"
      [] OTHER -> "none"

\* C27.  Every webhook request, whichever branch it takes, has recorded
\* exactly one outcome among invalid_signature, validation_error, created and
\* duplicate in the result counter and in the request state by the time its
\* response is returned, and the outcome is the one of the branch taken.
C27_OneOutcome ==
    \A p \in Workers :
        Responded(p) =>
            /\ Len(recorded[p]) = 1
            /\ recorded[p][1] \in Outcomes
            /\ rstate[p].webhook_result = recorded[p][1]
            /\ recorded[p][1] = BranchTaken(p)

\* C28.  Within one GET /messages request the count and the fetch agree even
\* when a webhook insert commits between them: the page never holds more
\* items than max(0, total - offset).
C28_CountFetchConsistent ==
    Listed =>
        LET left == reader.response.body.total - reader.response.body.offset
        IN  Len(Page) <= IF left < 0 THEN 0 ELSE left

\* --- created_at
\* Tables holding the rows of a table with other values of created_at: the
\* times reversed, every time moved by one, every time the same.
Restamped(rows) ==
    { Reinserted(rows),
      {[r EXCEPT !.created_at = @ + 1] : r \in rows},
      {[r EXCEPT !.created_at = 0] : r \in rows} }

\* The body get_messages returns for the reader's request on a table.
ListAnswer(rows) ==
    [data |-> Items(LimitOffset(OrderByTsId(Where(rows, reader.raw.from_,
                                                  reader.raw.since, reader.raw.q)),
                                reader.limit, reader.offset.n)),
     total |-> SelectCount(rows, reader.raw.from_, reader.raw.since, reader.raw.q),
     limit |-> reader.limit,
     offset |-> reader.offset.n]

\* The body get_stats returns on a table.
StatsAnswer(rows) ==
    [total_messages |-> Cardinality(rows),
     senders_count |-> Cardinality(Senders(rows)),
     messages_per_sender |-> MessagesPerSender(rows),
     first_message_ts |-> MinTs(rows),
     last_message_ts |-> MaxTs(rows)]

\* C29.  created_at plays no part in reads: a table whose rows differ from
\* the stored ones in created_at only gives the same GET /messages response
\* (items, order, total) for the same filters, limit and offset and the same
\* GET /stats response, and no returned item has a created_at.
C29_CreatedAtUnused ==
    /\ Listed =>
          /\ \A other \in Restamped(store) : reader.response.body = ListAnswer(other)
          /\ \A i \in 1..Len(Page) :
                 DOMAIN Page[i] = {"message_id", "from", "to", "ts", "text"}
    /\ StatsAnswered =>
          \A other \in Restamped(store) : Stats = StatsAnswer(other)

\* C29 witness: a page of several items from a table whose order of ts is
\* not its order of created_at.
C29_Witness ==
    /\ Listed
    /\ Len(Page) >= 2
    /\ Reinserted(store) # store
    /\ OrderByInsertion(store) # OrderByTsId(store)
    /\ Items(OrderByInsertion(store)) # Items(OrderByInsertion(Reinserted(store)))

\* The sum of the counts of a messages_per_sender list.
RECURSIVE SumCounts(_)
SumCounts(list) ==
    IF list = <<>> THEN 0 ELSE Head(list).count + SumCounts(Tail(list))

\* C30.  Every GET /stats response is consistent in itself, also when webhook
\* inserts commit while it is computed: senders_count is at most
\* total_messages, the counts of messages_per_sender sum to at most
\* total_messages, and first_message_ts is null exactly when total_messages
\* is 0.
C30_StatsConsistent ==
    StatsAnswered =>
        /\ Stats.senders_count <= Stats.total_messages
        /\ SumCounts(Stats.messages_per_sender) <= Stats.total_messages
        /\ Stats.first_message_ts.isnull <=> Stats.total_messages = 0

=============================================================================
